---- MODULE Spec2Model ----
(***************************************************************************)
(* A model of dev/codegen/generator.py (TracGenerator): the type registry, *)
(* the type and default resolver, the comment translator, the declaration  *)
(* emitter and the package assembler.  Text is modelled as TLA+ strings,   *)
(* descriptors as records, the registry (a Python dict) as an insertion-   *)
(* ordered sequence of name/info entries.                                   *)
(***************************************************************************)
EXTENDS Naturals, Integers, Sequences, FiniteSets, TLC

VARIABLES
    pc,               \* position of the run
    options,          \* self._options: a record whose DOMAIN is the set of options present
    api_package,      \* generate_package's api_package
    proto_files,      \* the compilation unit handed to build_type_map
    files,            \* generate_package's files
    type_map,         \* the registry, filled by build_type_map
    file_idx,         \* 1-based index of the next file of the for loops
    output_files,     \* generate_package's output_files
    package_imports,  \* generate_package's package_imports
    result,           \* the list generate_package returned
    error,            \* the exception that ended the run ("" for none)
    visited,          \* scoped names of the messages generate_data_class was invoked on
    call,             \* input of a resolver / translator call
    ret               \* its output

vars == <<pc, options, api_package, proto_files, files, type_map, file_idx,
          output_files, package_imports, result, error, visited, call, ret>>

(***************************************************************************)
(* Bounds of the model.                                                    *)
(***************************************************************************)
MaxTypeFiles == 3

MaxFiles == 3

MaxCommentLen == 4

MaxDepth == 2

(***************************************************************************)
(* Strings: the Python str operations the generator uses.                  *)
(***************************************************************************)
Range(s) == {s[i] : i \in DOMAIN s}

\* s[n:]
StrFrom(s, n) == IF n >= Len(s) THEN "" ELSE SubSeq(s, n + 1, Len(s))

\* s[:n]
StrTo(s, n) == IF n <= 0 THEN "" ELSE IF n >= Len(s) THEN s ELSE SubSeq(s, 1, n)

\* s[i] as a one-character string (1-based)
CharAt(s, i) == SubSeq(s, i, i)

\* s.startswith(p)
StartsWith(s, p) == Len(p) <= Len(s) /\ StrTo(s, Len(p)) = p

\* s.endswith(p)
EndsWith(s, p) == Len(p) <= Len(s) /\ StrFrom(s, Len(s) - Len(p)) = p

\* s[k:].startswith(p), k 0-based
MatchAt(s, k, p) == k + Len(p) <= Len(s) /\ SubSeq(s, k + 1, k + Len(p)) = p

\* s.find(p): the 0-based offset of the first occurrence, or -1
StrFind(s, p) ==
    IF \E k \in 0..Len(s) : MatchAt(s, k, p)
    THEN CHOOSE k \in 0..Len(s) : MatchAt(s, k, p) /\ \A j \in 0..(k - 1) : ~MatchAt(s, j, p)
    ELSE -1

\* s.rfind(p): the 0-based offset of the last occurrence, or -1
StrRFind(s, p) ==
    IF \E k \in 0..Len(s) : MatchAt(s, k, p)
    THEN CHOOSE k \in 0..Len(s) : MatchAt(s, k, p) /\ \A j \in (k + 1)..Len(s) : ~MatchAt(s, j, p)
    ELSE -1

\* p in s
Contains(s, p) == StrFind(s, p) >= 0

\* s.replace(old, new), old non-empty: every occurrence, left to right
RECURSIVE StrReplace(_, _, _)
StrReplace(s, old, new) ==
    LET k == StrFind(s, old)
    IN  IF k < 0 THEN s
        ELSE StrTo(s, k) \o new \o StrReplace(StrFrom(s, k + Len(old)), old, new)

\* s.split(sep), sep non-empty
RECURSIVE StrSplit(_, _)
StrSplit(s, sep) ==
    LET k == StrFind(s, sep)
    IN  IF k < 0 THEN <<s>>
        ELSE <<StrTo(s, k)>> \o StrSplit(StrFrom(s, k + Len(sep)), sep)

\* sep.join(parts)
RECURSIVE StrJoin(_, _)
StrJoin(sep, parts) ==
    IF Len(parts) = 0 THEN ""
    ELSE IF Len(parts) = 1 THEN parts[1]
    ELSE parts[1] \o sep \o StrJoin(sep, Tail(parts))

\* "".join(parts)
Concat(parts) == StrJoin("", parts)

\* s * n
RECURSIVE StrRepeat(_, _)
StrRepeat(s, n) == IF n <= 0 THEN "" ELSE s \o StrRepeat(s, n - 1)

\* Python's None, and the test for it
None == [isNone |-> TRUE]

\* an Optional[str]: None, or a string
NoneStr == [is_none |-> TRUE, text |-> ""]

SomeStr(t) == [is_none |-> FALSE, text |-> t]

IsNone(v) == v = None

(***************************************************************************)
(* Descriptors (google.protobuf.descriptor_pb2) as records.                *)
(***************************************************************************)
EnumValue(name, number) == [name |-> name, number |-> number]

EnumType(name, values) == [name |-> name, value |-> values]

\* label: "optional" | "repeated"; type: a FieldDescriptorProto.Type name;
\* oneof: HasField('oneof_index')
Field(name, label, type, type_name, proto3_optional, oneof) ==
    [name |-> name, label |-> label, type |-> type, type_name |-> type_name,
     proto3_optional |-> proto3_optional, has_oneof_index |-> oneof]

Message(name, fields, nested, enums, map_entry) ==
    [name |-> name, field |-> fields, nested_type |-> nested, enum_type |-> enums,
     map_entry |-> map_entry]

Method(name, input_type, output_type) ==
    [name |-> name, input_type |-> input_type, output_type |-> output_type]

Service(name, methods) == [name |-> name, method |-> methods]

Location(path, leading_comments) == [path |-> path, leading_comments |-> leading_comments]

FileDescriptor(name, package, deps, messages, enums, services, locations) ==
    [name |-> name, package |-> package, dependency |-> deps, message_type |-> messages,
     enum_type |-> enums, service |-> services, location |-> locations]

(***************************************************************************)
(* The type registry: TYPE_INFO_MAP, a dict from name to TypeInfo.         *)
(***************************************************************************)
TypeInfoEnum(e) == [typeClass |-> "ENUM", enum |-> e, message |-> None, service |-> None]

TypeInfoMessage(m) == [typeClass |-> "MESSAGE", enum |-> None, message |-> m, service |-> None]

TypeInfoService(s) == [typeClass |-> "SERVICE", enum |-> None, message |-> None, service |-> s]

HasKey(types, key) == \E i \in DOMAIN types : types[i].name = key

\* types[key] = info
DictPut(types, key, info) ==
    IF HasKey(types, key)
    THEN [i \in DOMAIN types |->
            IF types[i].name = key THEN [name |-> key, info |-> info] ELSE types[i]]
    ELSE Append(types, [name |-> key, info |-> info])

\* types.get(key)
DictGet(types, key) ==
    IF HasKey(types, key)
    THEN types[CHOOSE i \in DOMAIN types : types[i].name = key].info
    ELSE None

\* the for loops over enum_type / service: register each under scope + name
RECURSIVE RegisterEnums(_, _, _)
RegisterEnums(scope, types, enums) ==
    IF Len(enums) = 0 THEN types
    ELSE RegisterEnums(scope,
            DictPut(types, scope \o enums[1].name, TypeInfoEnum(enums[1])), Tail(enums))

RECURSIVE RegisterServices(_, _, _)
RegisterServices(scope, types, services) ==
    IF Len(services) = 0 THEN types
    ELSE RegisterServices(scope,
            DictPut(types, scope \o services[1].name, TypeInfoService(services[1])),
            Tail(services))

RECURSIVE build_type_map_for_message(_, _, _)
RECURSIVE ReduceMessages(_, _, _)

\* fn.reduce(fn.partial(self.build_type_map_for_message, scope), msgs, types)
ReduceMessages(scope, types, msgs) ==
    IF Len(msgs) = 0 THEN types
    ELSE ReduceMessages(scope, build_type_map_for_message(scope, types, msgs[1]), Tail(msgs))

\* a broken scope that leaves the separator out of inner_scope
InnerScopeNoDot(scope, proto_msg) == scope \o proto_msg.name

InnerScope(scope, proto_msg) == scope \o proto_msg.name \o "."

build_type_map_for_message(scope, types, proto_msg) ==
    LET inner_scope == InnerScope(scope, proto_msg)
        nested      == ReduceMessages(inner_scope, types, proto_msg.nested_type)
        with_enums  == RegisterEnums(inner_scope, nested, proto_msg.enum_type)
    IN  DictPut(with_enums, scope \o proto_msg.name, TypeInfoMessage(proto_msg))

FileScope(proto_file) == IF proto_file.package # "" THEN proto_file.package \o "." ELSE ""

build_type_map_for_file(types, proto_file) ==
    LET scope       == FileScope(proto_file)
        local_types == ReduceMessages(scope, types, proto_file.message_type)
        with_enums  == RegisterEnums(scope, local_types, proto_file.enum_type)
    IN  RegisterServices(scope, with_enums, proto_file.service)

RECURSIVE build_type_map_from(_, _)
build_type_map_from(types, fs) ==
    IF Len(fs) = 0 THEN types
    ELSE build_type_map_from(build_type_map_for_file(types, fs[1]), Tail(fs))

build_type_map(fs) == build_type_map_from(<<>>, fs)

(***************************************************************************)
(* Results of calls that may raise: the exception's class name, or a value.*)
(***************************************************************************)
Ok(v) == [err |-> "", val |-> v]

Raise(e) == [err |-> e, val |-> ""]

(***************************************************************************)
(* Type and default resolver.                                              *)
(***************************************************************************)
\* PRIMITIVE_TYPE_MAPPING[t].__name__ ; TYPE_GROUP, TYPE_MESSAGE and TYPE_ENUM have no entry
PRIMITIVE_TYPE_MAPPING ==
    [TYPE_DOUBLE |-> "float", TYPE_FLOAT |-> "float", TYPE_INT64 |-> "int",
     TYPE_UINT64 |-> "int", TYPE_INT32 |-> "int", TYPE_FIXED64 |-> "int",
     TYPE_FIXED32 |-> "int", TYPE_BOOL |-> "bool", TYPE_STRING |-> "str",
     TYPE_BYTES |-> "bytes", TYPE_UINT32 |-> "int", TYPE_SFIXED32 |-> "int",
     TYPE_SFIXED64 |-> "int", TYPE_SINT32 |-> "int", TYPE_SINT64 |-> "int"]

python_type_name(package, proto_type_name, make_relative, alias) ==
    LET t0 == IF StartsWith(proto_type_name, ".") THEN StrFrom(proto_type_name, 1)
              ELSE proto_type_name
        t1 == IF make_relative /\ StartsWith(t0, package)
              THEN StrFrom(t0, Len(package) + 1) ELSE t0
    IN  IF alias /\ StartsWith(t1, "trac.") THEN StrFrom(t1, Len("trac.")) ELSE t1

python_base_type(package, field, make_relative, alias) ==
    IF field.type = "TYPE_MESSAGE" \/ field.type = "TYPE_ENUM"
    THEN Ok(python_type_name(package, field.type_name, make_relative, alias))
    ELSE IF field.type \in DOMAIN PRIMITIVE_TYPE_MAPPING
    THEN Ok(PRIMITIVE_TYPE_MAPPING[field.type])
    ELSE Raise("ECodeGeneration")

\* next(filter(pred, message.nested_type), None) as an index, 0 for None; matches[i]
\* is pred(message.nested_type[i])
FirstNested(matches) ==
    IF \E i \in DOMAIN matches : matches[i]
    THEN CHOOSE i \in DOMAIN matches : matches[i] /\ \A j \in 1..(i - 1) : ~matches[j]
    ELSE 0

\* nested_type.field[k] (k 0-based) resolved, IndexError when the entry has no such field
EntryFieldType(package, nested_type, k) ==
    IF k + 1 > Len(nested_type.field) THEN Raise("IndexError")
    ELSE python_base_type(package, nested_type.field[k + 1], TRUE, TRUE)

\* f"_tp.Dict[{key_type}, {value_type}]"
DictType(key_type, value_type) ==
    IF key_type.err # "" THEN key_type
    ELSE IF value_type.err # "" THEN value_type
    ELSE Ok("_tp.Dict[" \o key_type.val \o ", " \o value_type.val \o "]")

\* the branch for a repeated field; n is the nested type found by
\* lambda nt: base_type == f"{message.name}.{nt.name}"
RepeatedFieldType(package, message, base_type, n) ==
    IF n # 0 /\ message.nested_type[n].map_entry
    THEN DictType(EntryFieldType(package, message.nested_type[n], 0),
                  EntryFieldType(package, message.nested_type[n], 1))
    ELSE Ok("_tp.List[" \o base_type \o "]")

\* a broken wrapping that tests proto3_optional and the oneof membership before the
\* repeated label
FieldTypeOfOptionalFirst(package, field, message, base) ==
    IF base.err # "" THEN base
    ELSE IF field.proto3_optional \/ field.has_oneof_index
    THEN Ok("_tp.Optional[" \o base.val \o "]")
    ELSE IF field.label = "LABEL_REPEATED"
    THEN RepeatedFieldType(package, message, base.val,
            FirstNested([i \in DOMAIN message.nested_type |->
                base.val = message.name \o "." \o message.nested_type[i].name]))
    ELSE base

\* python_field_type after base_type = self.python_base_type(package, field)
FieldTypeOf(package, field, message, base) ==
    IF base.err # "" THEN base
    ELSE IF field.label = "LABEL_REPEATED"
    THEN RepeatedFieldType(package, message, base.val,
            FirstNested([i \in DOMAIN message.nested_type |->
                base.val = message.name \o "." \o message.nested_type[i].name]))
    ELSE IF field.proto3_optional THEN Ok("_tp.Optional[" \o base.val \o "]")
    ELSE IF field.has_oneof_index THEN Ok("_tp.Optional[" \o base.val \o "]")
    ELSE base

python_field_type(package, field, message) ==
    FieldTypeOf(package, field, message, python_base_type(package, field, TRUE, TRUE))

\* a broken default that names the enum's last declared value
EnumDefaultLast(type_info) ==
    IF IsNone(type_info) THEN Raise("AttributeError")
    ELSE IF IsNone(type_info.enum) THEN Raise("AttributeError")
    ELSE IF Len(type_info.enum.value) = 0 THEN Raise("IndexError")
    ELSE Ok(type_info.enum.name \o "."
                \o type_info.enum.value[Len(type_info.enum.value)].name)

\* f"{enum_type.name}.{enum_type.value[0].name}" with enum_type = type_info.enum
EnumDefault(type_info) ==
    IF IsNone(type_info) THEN Raise("AttributeError")
    ELSE IF IsNone(type_info.enum) THEN Raise("AttributeError")
    ELSE IF Len(type_info.enum.value) = 0 THEN Raise("IndexError")
    ELSE Ok(type_info.enum.name \o "." \o type_info.enum.value[1].name)

\* the branches of python_default_value; n is the nested type found by
\* lambda nt: type_name.endswith(f"{message.name}.{nt.name}")
DefaultFor(field, message, type_info, n) ==
    IF field.label = "LABEL_REPEATED" THEN
        IF n # 0 /\ message.nested_type[n].map_entry
        THEN Ok("_dc.field(default_factory=dict)")
        ELSE Ok("_dc.field(default_factory=list)")
    ELSE IF field.has_oneof_index THEN Ok("None")
    ELSE IF field.type = "TYPE_MESSAGE" THEN Ok("None")
    ELSE IF field.type = "TYPE_ENUM" THEN EnumDefault(type_info)
    ELSE Ok("None")

\* python_default_value after type_name = self.python_base_type(...)
DefaultValueOf(field, message, types, base) ==
    IF base.err # "" THEN base
    ELSE DefaultFor(field, message, DictGet(types, base.val),
            FirstNested([i \in DOMAIN message.nested_type |->
                EndsWith(base.val, message.name \o "." \o message.nested_type[i].name)]))

python_default_value(package, field, message, types) ==
    DefaultValueOf(field, message, types, python_base_type(package, field, FALSE, FALSE))

(***************************************************************************)
(* Comment translator.                                                     *)
(***************************************************************************)
INDENT_TEMPLATE == "    "

Whitespace == {" ", "\n", "\t"}

\* s.lstrip()
RECURSIVE StrLStrip(_)
StrLStrip(s) ==
    IF Len(s) > 0 /\ CharAt(s, 1) \in Whitespace THEN StrLStrip(StrFrom(s, 1)) ELSE s

\* s.rstrip()
RECURSIVE StrRStrip(_)
StrRStrip(s) ==
    IF Len(s) > 0 /\ CharAt(s, Len(s)) \in Whitespace THEN StrRStrip(StrTo(s, Len(s) - 1)) ELSE s

\* s.strip()
StrStrip(s) == StrRStrip(StrLStrip(s))

\* re.sub("^(\\*\n)|/", "", comment, count=1): the leftmost match is "*\n" at the
\* start of the text, or else the first "/" anywhere in it
StripOpenMarker(comment) ==
    IF StartsWith(comment, "*\n") THEN StrFrom(comment, 2)
    ELSE IF Contains(comment, "/")
    THEN StrTo(comment, StrFind(comment, "/")) \o StrFrom(comment, StrFind(comment, "/") + 1)
    ELSE comment

\* re.sub("\n$", "", s): "$" matches at the end and before a final line break, so
\* one or two final line breaks go
StripFinalNewline(s) ==
    IF EndsWith(s, "\n\n") THEN StrTo(s, Len(s) - 2)
    ELSE IF EndsWith(s, "\n") THEN StrTo(s, Len(s) - 1)
    ELSE s

\* re.sub("^ ?", indent, s)
IndentFirstLine(s, indent) ==
    IF StartsWith(s, " ") THEN indent \o StrFrom(s, 1) ELSE indent \o s

\* re.sub("\\n ?", "\n" + indent, s)
RECURSIVE IndentNextLines(_, _)
IndentNextLines(s, indent) ==
    LET k == StrFind(s, "\n")
    IN  IF k < 0 THEN s
        ELSE LET rest == StrFrom(s, k + 1)
                 body == IF StartsWith(rest, " ") THEN StrFrom(rest, 1) ELSE rest
             IN  StrTo(s, k) \o "\n" \o indent \o IndentNextLines(body, indent)

\* the three re.sub calls that rewrite "@see" annotations: they match no text
\* without an "@see" in it, and the comments of this model hold no "@"
RewriteSeeAlso(s, next_indent) == s

\* comment is an Optional[str]; ctx_indent is ctx.indent
translate_comment_from_proto(ctx_indent, comment, use_next_indent) ==
    IF comment.is_none THEN ""
    ELSE
        LET indent == IF use_next_indent THEN ctx_indent + 1 ELSE ctx_indent
            next_indent == StrRepeat(INDENT_TEMPLATE, indent + 1)
            t1 == StripOpenMarker(comment.text)
            t2 == StripFinalNewline(t1)
            t3 == IndentFirstLine(t2, StrRepeat(INDENT_TEMPLATE, indent))
            t4 == IndentNextLines(t3, StrRepeat(INDENT_TEMPLATE, indent))
            t5 == RewriteSeeAlso(t4, next_indent)
        IN  IF StrStrip(t5) = "" THEN "" ELSE t5

COMMENT_SINGLE_LINE(indent, comment) == indent \o "\"\"\"" \o comment \o "\"\"\"\n\n"

COMMENT_MULTI_LINE(indent, comment) ==
    indent \o "\"\"\"\n" \o comment \o "\n" \o indent \o "\"\"\"\n\n"

\* format_doc_comment after translated_comment = self.translate_comment_from_proto(...)
DocCommentText(indent, translated_comment) ==
    IF StrStrip(translated_comment) = "" THEN ""
    ELSE IF Contains(StrStrip(translated_comment), "\n")
    THEN COMMENT_MULTI_LINE(StrRepeat(INDENT_TEMPLATE, indent), translated_comment)
    ELSE COMMENT_SINGLE_LINE(StrRepeat(INDENT_TEMPLATE, indent), StrStrip(translated_comment))

format_doc_comment(ctx_indent, comment, next_indent) ==
    DocCommentText(IF next_indent THEN ctx_indent + 1 ELSE ctx_indent,
                   translate_comment_from_proto(ctx_indent, comment, next_indent))

(***************************************************************************)
(* Source locations.                                                       *)
(***************************************************************************)
\* get_field_number(pb_desc.FileDescriptorProto, "enum_type")
DescFileEnum == 5

\* get_field_number(pb_desc.FileDescriptorProto, "message_type")
DescFileMessage == 4

\* get_field_number(pb_desc.FileDescriptorProto, "service")
DescFileService == 6

\* get_field_number(pb_desc.EnumDescriptorProto, "value")
DescEnumValue == 2

\* get_field_number(pb_desc.DescriptorProto, "field")
DescMessageField == 2

\* get_field_number(pb_desc.ServiceDescriptorProto, "method")
DescServiceMethod == 2

LocationContext(src_locations, src_loc_code, src_loc_index, indent) ==
    [src_locations |-> src_locations, src_loc_code |-> src_loc_code,
     src_loc_index |-> src_loc_index, indent |-> indent]

\* the context index_sub_ctx's iterator yields for the descriptor at 1-based position k
SubCtx(src_locations, field_number, indent, k) ==
    LocationContext(src_locations, field_number, k - 1, indent)

filter_src_location(locations, loc_type, loc_index) ==
    LET Under(l) == Len(l.path) >= 2 /\ l.path[1] = loc_type /\ l.path[2] = loc_index
        filtered == SelectSeq(locations, Under)
    IN  [i \in DOMAIN filtered |->
            [filtered[i] EXCEPT !.path = SubSeq(filtered[i].path, 3, Len(filtered[i].path))]]

CtxLocations(ctx) == filter_src_location(ctx.src_locations, ctx.src_loc_code, ctx.src_loc_index)

\* current_location, then its leading_comments: an Optional[str]
comment_for_current_location(locations) ==
    IF \E i \in DOMAIN locations : Len(locations[i].path) = 0
    THEN SomeStr(locations[CHOOSE i \in DOMAIN locations :
                    /\ Len(locations[i].path) = 0
                    /\ \A j \in 1..(i - 1) : Len(locations[j].path) # 0].leading_comments)
    ELSE NoneStr

(***************************************************************************)
(* Declaration emitter.  An emitter returns [err, val, visited]: the       *)
(* exception it raised, the text it returned, and the scoped names of the  *)
(* messages generate_data_class was invoked on, in order.                  *)
(***************************************************************************)
Emitted(v, seen) == [err |-> "", val |-> v, visited |-> seen]

Failed(e, seen) == [err |-> e, val |-> "", visited |-> seen]

\* str(n) for the numbers of the model
RECURSIVE IntToStr(_)
IntToStr(n) ==
    IF n < 10 THEN CharAt("0123456789", n + 1)
    ELSE IntToStr(n \div 10) \o CharAt("0123456789", (n % 10) + 1)

PASS_TEMPLATE(indent) == indent \o "pass\n\n"

\* two emitters run one after the other: the first exception ends the run, the
\* texts are joined
Then(first, rest) ==
    IF first.err # "" THEN first
    ELSE IF rest.err # "" THEN Failed(rest.err, first.visited \o rest.visited)
    ELSE Emitted(first.val \o rest.val, first.visited \o rest.visited)

\* format_enum_comment after translated_comment = translate_comment_from_proto(...).lstrip()
EnumCommentText(ctx_indent, translated_comment) ==
    IF StrStrip(translated_comment) = "" THEN ""
    ELSE IF ~Contains(StrStrip(translated_comment), "\n")
    THEN "\"\"\"" \o StrStrip(translated_comment) \o "\"\"\""
    ELSE "\"\"\"" \o translated_comment \o "\n"
            \o StrRepeat(INDENT_TEMPLATE, ctx_indent) \o "\"\"\""

format_enum_comment(ctx_indent, comment) ==
    EnumCommentText(ctx_indent, StrLStrip(translate_comment_from_proto(ctx_indent, comment, FALSE)))

generate_enum_value(ctx, descriptor) ==
    StrRepeat(INDENT_TEMPLATE, ctx.indent) \o descriptor.name \o " = "
        \o IntToStr(descriptor.number) \o ", "
        \o format_enum_comment(ctx.indent, comment_for_current_location(CtxLocations(ctx)))
        \o "\n\n"

\* a broken scope test that never sees a scope
EnumScopeIgnored(opt) == FALSE

\* if enum_scope: an Optional[str] that is neither None nor empty
Truthy(opt) == ~opt.is_none /\ opt.text # ""

\* generate_enum once filtered_loc = self.filter_src_location(...) is known
EnumText(filtered_loc, indent, descriptor) ==
    StrRepeat(INDENT_TEMPLATE, indent) \o "class " \o descriptor.name
        \o "(_enum.Enum):" \o "\n\n"
        \o format_doc_comment(indent, comment_for_current_location(filtered_loc), TRUE)
        \o Concat([k \in DOMAIN descriptor.value |->
                    generate_enum_value(SubCtx(filtered_loc, DescEnumValue, indent + 1, k),
                                        descriptor.value[k])])

generate_enum(ctx, descriptor, enum_scope) ==
    IF Truthy(enum_scope) THEN Failed("ECodeGeneration", <<>>)
    ELSE IF Len(descriptor.value) = 0
    THEN Emitted(PASS_TEMPLATE(StrRepeat(INDENT_TEMPLATE, ctx.indent)), <<>>)
    ELSE Emitted(EnumText(CtxLocations(ctx), ctx.indent, descriptor), <<>>)

\* the f-string of generate_data_member once its parts are computed
DataMemberText(indent, field, field_type, field_default, doc_comment) ==
    IF field_type.err # "" THEN Failed(field_type.err, <<>>)
    ELSE IF field_default.err # "" THEN Failed(field_default.err, <<>>)
    ELSE Emitted(StrRepeat(INDENT_TEMPLATE, indent) \o field.name \o ": "
                    \o field_type.val \o " = " \o field_default.val \o "\n\n"
                    \o doc_comment,
                 <<>>)

generate_data_member(package, ctx, message, field, types) ==
    DataMemberText(ctx.indent, field,
        python_field_type(package, field, message),
        python_default_value(package, field, message, types),
        format_doc_comment(ctx.indent, comment_for_current_location(CtxLocations(ctx)), FALSE))

\* list(map(lambda f: self.generate_data_member(...), descriptor.field)) from the
\* k-th field on, joined; the first exception ends it
RECURSIVE DataMembersFrom(_, _, _, _, _)
DataMembersFrom(package, ctx, descriptor, types, k) ==
    IF k > Len(descriptor.field) THEN Emitted("", <<>>)
    ELSE Then(generate_data_member(package,
                    SubCtx(ctx.src_locations, DescMessageField, ctx.indent, k),
                    descriptor, descriptor.field[k], types),
              DataMembersFrom(package, ctx, descriptor, types, k + 1))

\* a broken member section that leaves a message without fields empty
DataMembersWithoutPass(package, ctx, descriptor, types) ==
    DataMembersFrom(package, ctx, descriptor, types, 1)

generate_data_members(package, ctx, descriptor, types) ==
    IF Len(descriptor.field) = 0
    THEN Emitted(PASS_TEMPLATE(StrRepeat(INDENT_TEMPLATE, ctx.indent)), <<>>)
    ELSE DataMembersFrom(package, ctx, descriptor, types, 1)

\* the for loop over descriptor.enum_type of generate_data_class, from the k-th on
RECURSIVE NestedEnumsFrom(_, _, _, _, _)
NestedEnumsFrom(filtered_loc, indent, descriptor, nested_scope, k) ==
    IF k > Len(descriptor.enum_type) THEN Emitted("", <<>>)
    ELSE Then(generate_enum(SubCtx(filtered_loc, DescFileEnum, indent + 1, k),
                            descriptor.enum_type[k], SomeStr(nested_scope)),
              NestedEnumsFrom(filtered_loc, indent, descriptor, nested_scope, k + 1))

RECURSIVE generate_data_class(_, _, _, _, _)
RECURSIVE NestedClassesFrom(_, _, _, _, _, _, _)

\* the for loop over descriptor.nested_type of generate_data_class, from the k-th on
NestedClassesFrom(package, nested_scope, filtered_loc, indent, descriptor, types, k) ==
    IF k > Len(descriptor.nested_type) THEN Emitted("", <<>>)
    ELSE IF descriptor.nested_type[k].map_entry
    THEN NestedClassesFrom(package, nested_scope, filtered_loc, indent, descriptor, types, k + 1)
    ELSE Then(generate_data_class(package, nested_scope,
                    SubCtx(filtered_loc, DescFileMessage, indent + 1, k),
                    descriptor.nested_type[k], types),
              NestedClassesFrom(package, nested_scope, filtered_loc, indent, descriptor,
                                types, k + 1))

\* the DATA_CLASS_TEMPLATE of generate_data_class once its parts are computed, in the
\* order the code computes them
DataClassText(indent, descriptor, nested_scope, nested_enums, nested_types, data_members, doc_comment) ==
    IF nested_enums.err # "" THEN Failed(nested_enums.err, <<nested_scope>>)
    ELSE IF nested_types.err # ""
    THEN Failed(nested_types.err, <<nested_scope>> \o nested_types.visited)
    ELSE IF data_members.err # ""
    THEN Failed(data_members.err, <<nested_scope>> \o nested_types.visited)
    ELSE Emitted(indent \o "@_dc.dataclass\n" \o indent \o "class " \o descriptor.name
                    \o ":\n" \o "\n" \o doc_comment \o nested_enums.val
                    \o nested_types.val \o data_members.val,
                 <<nested_scope>> \o nested_types.visited)

\* generate_data_class once filtered_loc and nested_scope are known
DataClassAt(package, nested_scope, filtered_loc, ctx, descriptor, types) ==
    DataClassText(StrRepeat(INDENT_TEMPLATE, ctx.indent), descriptor, nested_scope,
        NestedEnumsFrom(filtered_loc, ctx.indent, descriptor, nested_scope, 1),
        NestedClassesFrom(package, nested_scope, filtered_loc, ctx.indent, descriptor, types, 1),
        generate_data_members(package,
            LocationContext(filtered_loc, ctx.src_loc_code, ctx.src_loc_index, ctx.indent + 1),
            descriptor, types),
        format_doc_comment(ctx.indent, comment_for_current_location(filtered_loc), TRUE))

\* message_scope is never None here: generate_file passes the file's package
generate_data_class(package, message_scope, ctx, descriptor, types) ==
    DataClassAt(package, message_scope \o "." \o descriptor.name, CtxLocations(ctx), ctx,
                descriptor, types)

generate_service_method(package, ctx, descriptor) ==
    StrRepeat(INDENT_TEMPLATE, ctx.indent) \o "def " \o descriptor.name
        \o "(self, request: " \o python_type_name(package, descriptor.input_type, TRUE, FALSE)
        \o ") -> " \o python_type_name(package, descriptor.output_type, TRUE, FALSE) \o ":\n"
        \o "\n"
        \o format_doc_comment(ctx.indent, comment_for_current_location(CtxLocations(ctx)), TRUE)
        \o StrRepeat(INDENT_TEMPLATE, ctx.indent + 1) \o "pass\n\n"

\* generate_service_class once filtered_loc is known
ServiceClassText(package, filtered_loc, indent, descriptor) ==
    StrRepeat(INDENT_TEMPLATE, indent) \o "class " \o descriptor.name \o ":\n" \o "\n"
        \o format_doc_comment(indent, comment_for_current_location(filtered_loc), TRUE)
        \o Concat([k \in DOMAIN descriptor.method |->
                    generate_service_method(package,
                        SubCtx(filtered_loc, DescServiceMethod, indent + 1, k),
                        descriptor.method[k])])

generate_service_class(package, ctx, descriptor) ==
    ServiceClassText(package, CtxLocations(ctx), ctx.indent, descriptor)

(***************************************************************************)
(* Package assembler.                                                      *)
(***************************************************************************)
FILE_HEADER == "# Code generated by TRAC\n\n"

STD_IMPORTS ==
    "from __future__ import annotations\n" \o "import typing as _tp  # noqa\n"
        \o "import dataclasses as _dc  # noqa\n" \o "import enum as _enum  # noqa\n\n"

\* the match of "^(trac/.+)/([^/]+)\.proto$": the last "/" parts the directory
\* (group 1, "trac/" and at least one more character) from the file name (group 2)
ImportMatch(import_proto) ==
    LET k == StrRFind(import_proto, "/")
        dir == StrTo(import_proto, k)
        base == StrFrom(import_proto, k + 1)
    IN  IF /\ k >= 0
           /\ StartsWith(dir, "trac/")
           /\ Len(dir) > Len("trac/")
           /\ EndsWith(base, ".proto")
           /\ Len(base) > Len(".proto")
        THEN [matched |-> TRUE, package |-> dir, module |-> StrTo(base, Len(base) - Len(".proto"))]
        ELSE [matched |-> FALSE, package |-> "", module |-> ""]

\* the for loop of generate_module_imports from the k-th dependency on
RECURSIVE ModuleImportsFrom(_, _, _, _, _, _)
ModuleImportsFrom(descriptor, pkg, opts, k, import_stmts, prior_imports) ==
    IF k > Len(descriptor.dependency) THEN import_stmts
    ELSE
        LET import_match == ImportMatch(descriptor.dependency[k])
            import_package == StrReplace(import_match.package, "/", ".")
            import_module == StrReplace(import_match.module, "/", ".")
            target_package == IF "target_package" \in DOMAIN opts THEN opts.target_package
                              ELSE "trac"
            sub_package == StrReplace(import_package, "trac.", "")
            qualified_package == target_package \o "." \o sub_package
            alias == StrFrom(import_package, StrRFind(import_package, ".") + 1)
        IN  IF ~import_match.matched
            THEN ModuleImportsFrom(descriptor, pkg, opts, k + 1, import_stmts, prior_imports)
            ELSE IF import_package = pkg /\ import_module \notin prior_imports
            THEN ModuleImportsFrom(descriptor, pkg, opts, k + 1,
                    Append(import_stmts, "from ." \o import_module \o " import *  # noqa\n"),
                    prior_imports \cup {import_module})
            ELSE IF import_package \notin prior_imports
            THEN ModuleImportsFrom(descriptor, pkg, opts, k + 1,
                    Append(import_stmts,
                           "import " \o qualified_package \o " as " \o alias \o "\n"),
                    prior_imports \cup {import_package})
            ELSE ModuleImportsFrom(descriptor, pkg, opts, k + 1, import_stmts, prior_imports)

generate_module_imports(descriptor, pkg, opts) ==
    ModuleImportsFrom(descriptor, pkg, opts, 1, <<>>, {})

\* PurePath(p).name
PathName(path) == StrFrom(path, StrRFind(path, "/") + 1)

\* PurePath(p).suffix
PathSuffix(path) ==
    LET name == PathName(path)
        k == StrRFind(name, ".")
    IN  IF 0 < k /\ k < Len(name) - 1 THEN StrFrom(name, k) ELSE ""

\* PurePath(p).stem
PathStem(path) ==
    LET name == PathName(path)
    IN  StrTo(name, Len(name) - Len(PathSuffix(path)))

\* PurePath(p).with_suffix(suffix)
WithSuffix(path, suffix) == StrTo(path, Len(path) - Len(PathSuffix(path))) \o suffix

\* PurePath(p).joinpath(name)
JoinPath(path, name) == path \o "/" \o name

\* str(pathlib.Path(*api_package.split("."))), for a package of non-empty components
PackagePath(pkg) == StrJoin("/", StrSplit(pkg, "."))

\* "from .{MODULE_NAME} import {SYMBOL}\n" for each descriptor of the list
PackageImportLines(module_name, descriptors) ==
    Concat([k \in DOMAIN descriptors |->
                "from ." \o module_name \o " import " \o descriptors[k].name \o "\n"])

generate_package_imports(descriptor) ==
    LET module_name == PathStem(descriptor.name)
    IN  (IF Len(descriptor.enum_type) > 0 \/ Len(descriptor.message_type) > 0
         THEN "\n" ELSE "")
            \o PackageImportLines(module_name, descriptor.enum_type)
            \o PackageImportLines(module_name, descriptor.message_type)

\* as Then, for a list of texts
ThenList(first, rest) ==
    IF first.err # "" THEN first
    ELSE IF rest.err # "" THEN Failed(rest.err, first.visited \o rest.visited)
    ELSE Emitted(<<first.val>> \o rest.val, first.visited \o rest.visited)

\* the for loop over descriptor.message_type of generate_file, from the k-th on:
\* val is the list of the messages' texts
RECURSIVE MessagesFrom(_, _, _, _, _)
MessagesFrom(src_loc, indent, descriptor, types, k) ==
    IF k > Len(descriptor.message_type) THEN Emitted(<<>>, <<>>)
    ELSE ThenList(generate_data_class(descriptor.package, descriptor.package,
                        SubCtx(src_loc, DescFileMessage, indent, k),
                        descriptor.message_type[k], types),
                  MessagesFrom(src_loc, indent, descriptor, types, k + 1))

\* the FILE_TEMPLATE of generate_file once its parts are computed
FileText(file_header, std_imports, import_stmts, enums, messages, services) ==
    IF messages.err # "" THEN Failed(messages.err, messages.visited)
    ELSE Emitted(file_header \o std_imports
                    \o (IF Len(import_stmts) > 0 THEN Concat(import_stmts) \o "\n\n" ELSE "")
                    \o StrJoin("\n", enums) \o "\n" \o StrJoin("\n", messages.val) \o "\n"
                    \o StrJoin("\n", services) \o "\n",
                 messages.visited)

generate_file(src_loc, indent, descriptor, pkg, types, include_header, opts) ==
    FileText(IF include_header THEN FILE_HEADER ELSE "",
             IF include_header THEN STD_IMPORTS ELSE "",
             IF include_header THEN generate_module_imports(descriptor, pkg, opts) ELSE <<>>,
             [k \in DOMAIN descriptor.enum_type |->
                generate_enum(SubCtx(src_loc, DescFileEnum, indent, k),
                              descriptor.enum_type[k], NoneStr).val],
             MessagesFrom(src_loc, indent, descriptor, types, 1),
             [k \in DOMAIN descriptor.service |->
                generate_service_class(descriptor.package,
                    SubCtx(src_loc, DescFileService, indent, k), descriptor.service[k])])

\* a CodeGeneratorResponse.File
ResponseFile(name, content) == [name |-> name, content |-> content]

\* while module_code.endswith("\n\n"): module_code = module_code[:-1]
RECURSIVE StripBlankLines(_)
StripBlankLines(module_code) ==
    IF EndsWith(module_code, "\n\n") THEN StripBlankLines(StrTo(module_code, Len(module_code) - 1))
    ELSE module_code

\* flat_pack = "flat_pack" in self._options
FlatPack(opts) == "flat_pack" \in DOMAIN opts

\* a broken loop body that names every flat-pack record after the package
ModuleResponseAlwaysNamed(pkg, opts, file_descriptor, module_code, outputs) ==
    IF FlatPack(opts)
    THEN ResponseFile(WithSuffix(PackagePath(pkg), ".py"),
                      FILE_HEADER \o STD_IMPORTS \o module_code)
    ELSE ResponseFile(
            WithSuffix(JoinPath(PackagePath(pkg), PathStem(file_descriptor.name)), ".py"),
            StripBlankLines(module_code))

\* the record the body of generate_package's for loop appends for one file's code
ModuleResponse(pkg, opts, file_descriptor, module_code, outputs) ==
    IF FlatPack(opts)
    THEN IF Len(outputs) = 0
         THEN ResponseFile(WithSuffix(PackagePath(pkg), ".py"),
                           FILE_HEADER \o STD_IMPORTS \o module_code)
         ELSE ResponseFile("", module_code)
    ELSE ResponseFile(
            WithSuffix(JoinPath(PackagePath(pkg), PathStem(file_descriptor.name)), ".py"),
            StripBlankLines(module_code))

\* the package-level __init__ file
PackageInitFile(pkg, imports) ==
    ResponseFile(JoinPath(PackagePath(pkg), "__init__.py"),
                 StrTo(FILE_HEADER, Len(FILE_HEADER) - 1) \o imports)

\* output_files once the loop is over
WithManifest(pkg, opts, fs, outputs, imports) ==
    IF ~FlatPack(opts) \/ Len(fs) = 0
    THEN Append(outputs, PackageInitFile(pkg, imports))
    ELSE outputs

\* a broken filter that compares names without the component separator
PackageFilterNoDot(pkg, opts, outputs) ==
    IF "packages" \notin DOMAIN opts THEN outputs
    ELSE IF pkg = opts.packages \/ StartsWith(pkg, opts.packages) THEN outputs
    ELSE IF StartsWith(opts.packages, pkg)
    THEN <<ResponseFile(JoinPath(PackagePath(pkg), "__init__.py"), "")>>
    ELSE <<>>

\* a broken filter that returns the whole output to an ancestor of the filter
PackageFilterKeepAncestors(pkg, opts, outputs) ==
    IF "packages" \notin DOMAIN opts THEN outputs
    ELSE IF pkg = opts.packages \/ StartsWith(pkg, opts.packages \o ".") THEN outputs
    ELSE IF StartsWith(opts.packages, pkg \o ".") THEN outputs
    ELSE <<>>

\* the return statements of generate_package
PackageFilter(pkg, opts, outputs) ==
    IF "packages" \notin DOMAIN opts THEN outputs
    ELSE IF pkg = opts.packages \/ StartsWith(pkg, opts.packages \o ".") THEN outputs
    ELSE IF StartsWith(opts.packages, pkg \o ".")
    THEN <<ResponseFile(JoinPath(PackagePath(pkg), "__init__.py"), "")>>
    ELSE <<>>

(***************************************************************************)
(* Values of the variables a specification does not use.                   *)
(***************************************************************************)
NoOptions == <<>>

NoCall == [op |-> "none"]

NoRet == [op |-> "none"]

\* all sequences over S of length at most n
SeqsUpTo(S, n) == UNION {[1..k -> S] : k \in 0..n}

(***************************************************************************)
(* SpecTypes: build_type_map folded over a compilation unit, file by file. *)
(***************************************************************************)
LeafMsg == Message("Leaf", <<>>, <<>>, <<>>, FALSE)

InnerMsg ==
    Message("Inner", <<>>, <<LeafMsg>>, <<EnumType("Deep", <<EnumValue("D", 0)>>)>>, FALSE)

OuterMsg ==
    Message("Outer", <<>>, <<InnerMsg>>, <<EnumType("Kind", <<EnumValue("K", 0)>>)>>, FALSE)

ColorEnum == EnumType("Color", <<EnumValue("RED", 0), EnumValue("BLUE", 1)>>)

EchoSvc == Service("Svc", <<Method("Echo", ".a.Outer", ".a.Outer")>>)

\* a file with messages nested three deep, nested enums, a file-level enum and a service
TypesFileOne(p) ==
    FileDescriptor("one.proto", p, <<>>, <<OuterMsg>>, <<ColorEnum>>, <<EchoSvc>>, <<>>)

\* package a, message b { message C }: a.b.C by nesting
TypesFileNest ==
    FileDescriptor("nest.proto", "a", <<>>,
        <<Message("b", <<>>, <<Message("C", <<>>, <<>>, <<>>, FALSE)>>, <<>>, FALSE)>>,
        <<>>, <<>>, <<>>)

\* package a.b, message C: a.b.C by package; message Color: the name of one.proto's enum
TypesFileFlat ==
    FileDescriptor("flat.proto", "a.b", <<>>,
        <<Message("C", <<>>, <<>>, <<>>, FALSE), Message("Color", <<>>, <<>>, <<>>, FALSE)>>,
        <<>>, <<>>, <<>>)

TypesCatalog ==
    {TypesFileOne(""), TypesFileOne("a"), TypesFileOne("a.b"), TypesFileNest, TypesFileFlat}

InitTypes ==
    /\ pc = "types"
    /\ proto_files \in SeqsUpTo(TypesCatalog, MaxTypeFiles)
    /\ type_map = <<>>
    /\ file_idx = 1
    /\ options = NoOptions
    /\ api_package = ""
    /\ files = <<>>
    /\ output_files = <<>>
    /\ package_imports = ""
    /\ result = <<>>
    /\ error = ""
    /\ visited = <<>>
    /\ call = NoCall
    /\ ret = NoRet

\* one step of fn.reduce(self.build_type_map_for_file, proto_files, {})
BuildTypeMapForFile ==
    /\ pc = "types"
    /\ file_idx <= Len(proto_files)
    /\ type_map' = build_type_map_for_file(type_map, proto_files[file_idx])
    /\ file_idx' = file_idx + 1
    /\ UNCHANGED <<pc, options, api_package, proto_files, files, output_files,
                   package_imports, result, error, visited, call, ret>>

\* the fold is over: build_type_map returns the registry
BuildTypeMapReturn ==
    /\ pc = "types"
    /\ file_idx > Len(proto_files)
    /\ pc' = "types_done"
    /\ UNCHANGED <<options, api_package, proto_files, files, type_map, file_idx,
                   output_files, package_imports, result, error, visited, call, ret>>

NextTypes == BuildTypeMapForFile \/ BuildTypeMapReturn

SpecTypes == InitTypes /\ [][NextTypes]_vars

(***************************************************************************)
(* The declarations of a compilation unit, stated over the descriptor tree *)
(* as sets: what the registry is claimed to hold.                          *)
(***************************************************************************)
RECURSIVE MessageDecls(_, _)
MessageDecls(prefix, m) ==
    {[name |-> prefix \o m.name, info |-> TypeInfoMessage(m)]}
    \cup {[name |-> prefix \o m.name \o "." \o e.name, info |-> TypeInfoEnum(e)] :
            e \in Range(m.enum_type)}
    \cup UNION {MessageDecls(prefix \o m.name \o ".", n) : n \in Range(m.nested_type)}

FileDecls(f) ==
    LET prefix == IF f.package = "" THEN "" ELSE f.package \o "."
    IN  UNION {MessageDecls(prefix, m) : m \in Range(f.message_type)}
        \cup {[name |-> prefix \o e.name, info |-> TypeInfoEnum(e)] : e \in Range(f.enum_type)}
        \cup {[name |-> prefix \o s.name, info |-> TypeInfoService(s)] : s \in Range(f.service)}

RECURSIVE MessageDeclCount(_)
RECURSIVE MessagesDeclCount(_)
MessagesDeclCount(msgs) ==
    IF Len(msgs) = 0 THEN 0 ELSE MessageDeclCount(msgs[1]) + MessagesDeclCount(Tail(msgs))

MessageDeclCount(m) == 1 + Len(m.enum_type) + MessagesDeclCount(m.nested_type)

FileDeclCount(f) == MessagesDeclCount(f.message_type) + Len(f.enum_type) + Len(f.service)

RECURSIVE FilesDeclCount(_)
FilesDeclCount(fs) ==
    IF Len(fs) = 0 THEN 0 ELSE FileDeclCount(fs[1]) + FilesDeclCount(Tail(fs))

Declared(fs) == UNION {FileDecls(fs[i]) : i \in DOMAIN fs}

\* no two declarations of the unit share a fully-qualified name
DeclaredDistinct(fs) ==
    Cardinality({d.name : d \in Declared(fs)}) = FilesDeclCount(fs)

\* C9: in the registry build_type_map builds, every fully-qualified name occurs at
\* most once, also when it is declared twice (by nesting and by package, or in two
\* files); and when the declared names are pairwise distinct the registry holds
\* exactly the declared messages (every depth), enums (file level and nested) and
\* services, each under package + enclosing path + name and with its own
\* descriptor and kind.
C9_RegistryUniqueAndExact ==
    /\ \A i, j \in DOMAIN type_map : i # j => type_map[i].name # type_map[j].name
    /\ (pc = "types_done" /\ DeclaredDistinct(proto_files))
            => Range(type_map) = Declared(proto_files)

\* two files with distinct names have been registered, one of them in the empty
\* package, with a three-deep message, a nested enum and a service among the keys
C9_Witness ==
    /\ pc = "types_done"
    /\ Len(proto_files) = 2
    /\ DeclaredDistinct(proto_files)
    /\ DictGet(type_map, "Outer.Inner.Leaf") = TypeInfoMessage(LeafMsg)
    /\ DictGet(type_map, "a.Outer.Inner.Deep").typeClass = "ENUM"
    /\ DictGet(type_map, "a.Svc").typeClass = "SERVICE"

(***************************************************************************)
(* SpecField: python_field_type and python_default_value applied to one    *)
(* field of a message M, for M at top level or nested in a message Outer.  *)
(***************************************************************************)
FieldPackages == {"a", "trac.metadata", ""}

FarPackage == "trac.api.meta"

\* the fully-qualified name of the type at `path` below package p
Fqn(p, path) == IF p = "" THEN path ELSE p \o "." \o path

ShadeEnum == EnumType("Shade", <<EnumValue("DARK", 0), EnumValue("LIGHT", 1)>>)

OtherMsg == Message("Other", <<>>, <<>>, <<>>, FALSE)

PlainNested == Message("N", <<>>, <<>>, <<>>, FALSE)

\* the synthetic map-entry type of map<string, int32>; `short` leaves the value field out
EntryMsg(short) ==
    Message("E",
        IF short THEN <<Field("key", "LABEL_OPTIONAL", "TYPE_STRING", "", FALSE, FALSE)>>
        ELSE <<Field("key", "LABEL_OPTIONAL", "TYPE_STRING", "", FALSE, FALSE),
               Field("value", "LABEL_OPTIONAL", "TYPE_INT32", "", FALSE, FALSE)>>,
        <<>>, <<>>, TRUE)

FieldTargets == {"map", "nested", "enum", "enum_far", "message", "string", "group"}

TargetType(t) ==
    CASE t \in {"map", "nested", "message"} -> "TYPE_MESSAGE"
      [] t \in {"enum", "enum_far"} -> "TYPE_ENUM"
      [] t = "string" -> "TYPE_STRING"
      [] OTHER -> "TYPE_GROUP"

\* the fully-qualified name of the target type, as the upstream parser writes it
\* into type_name (with a leading dot); enc is "" or the enclosing message path
TargetFqn(p, enc, t) ==
    CASE t = "map" -> Fqn(p, enc \o "M.E")
      [] t = "nested" -> Fqn(p, enc \o "M.N")
      [] t = "enum" -> Fqn(p, "Color")
      [] t = "enum_far" -> Fqn(FarPackage, "Shade")
      [] t = "message" -> Fqn(p, "Other")
      [] OTHER -> ""

TargetField(p, enc, t, label, proto3_optional, oneof) ==
    Field("f", label, TargetType(t),
          IF TargetFqn(p, enc, t) = "" THEN "" ELSE "." \o TargetFqn(p, enc, t),
          proto3_optional, oneof)

MessageM(fld, short) == Message("M", <<fld>>, <<EntryMsg(short), PlainNested>>, <<>>, FALSE)

\* the file declaring M (at top level, or inside Outer), Other and Color in package p
FieldFile(p, enc, m, color) ==
    FileDescriptor("fields.proto", p, <<>>,
        IF enc = "" THEN <<m, OtherMsg>>
        ELSE <<Message("Outer", <<>>, <<m>>, <<>>, FALSE), OtherMsg>>,
        <<color>>, <<>>, <<>>)

FarFile == FileDescriptor("far.proto", FarPackage, <<>>, <<>>, <<ShadeEnum>>, <<>>, <<>>)

Registries == {"forward", "reverse", "missing", "hollow"}

\* the registry handed to python_default_value: built over the unit in either file
\* order, empty, or built over a unit whose enums declare no value
FieldRegistry(kind, p, enc, m) ==
    CASE kind = "forward" -> build_type_map(<<FieldFile(p, enc, m, ColorEnum), FarFile>>)
      [] kind = "reverse" -> build_type_map(<<FarFile, FieldFile(p, enc, m, ColorEnum)>>)
      [] kind = "hollow" ->
            build_type_map(<<FieldFile(p, enc, m, EnumType("Color", <<>>)),
                [FarFile EXCEPT !.enum_type = <<EnumType("Shade", <<>>)>>]>>)
      [] OTHER -> <<>>

FieldCall(p, enc, t, label, proto3_optional, oneof, short, reg) ==
    LET fld == TargetField(p, enc, t, label, proto3_optional, oneof)
        m   == MessageM(fld, short)
    IN  [op |-> "field", package |-> p, enclosing |-> enc, target |-> t, field |-> fld,
         message |-> m, registry |-> reg, types |-> FieldRegistry(reg, p, enc, m)]

InitField ==
    /\ pc = "field"
    /\ \E p \in FieldPackages, enc \in {"", "Outer."}, t \in FieldTargets,
          label \in {"LABEL_OPTIONAL", "LABEL_REPEATED"},
          proto3_optional \in BOOLEAN, oneof \in BOOLEAN, short \in BOOLEAN,
          reg \in Registries :
            call = FieldCall(p, enc, t, label, proto3_optional, oneof, short, reg)
    /\ ret = NoRet
    /\ proto_files = <<>>
    /\ type_map = <<>>
    /\ file_idx = 1
    /\ options = NoOptions
    /\ api_package = ""
    /\ files = <<>>
    /\ output_files = <<>>
    /\ package_imports = ""
    /\ result = <<>>
    /\ error = ""
    /\ visited = <<>>

\* generate_data_member: field_type = self.python_field_type(package, field, message)
ResolveFieldType ==
    /\ pc = "field"
    /\ pc' = "typed"
    /\ ret' = [op |-> "field",
               field_type |-> python_field_type(call.package, call.field, call.message)]
    /\ UNCHANGED <<options, api_package, proto_files, files, type_map, file_idx,
                   output_files, package_imports, result, error, visited, call>>

\* generate_data_member: field_default = self.python_default_value(package, field, message, types)
ResolveFieldDefault ==
    /\ pc = "typed"
    /\ pc' = "resolved"
    /\ ret' = [op |-> "field", field_type |-> ret.field_type,
               field_default |->
                    python_default_value(call.package, call.field, call.message, call.types)]
    /\ UNCHANGED <<options, api_package, proto_files, files, type_map, file_idx,
                   output_files, package_imports, result, error, visited, call>>

NextField == ResolveFieldType \/ ResolveFieldDefault

SpecField == InitField /\ [][NextField]_vars

\* the call is over and python_field_type's result is in ret
Typed == pc \in {"typed", "resolved"}

\* the field under resolution is repeated and its base type resolves
RepeatedResolvable ==
    /\ call.field.label = "LABEL_REPEATED"
    /\ call.target # "group"
    /\ Len(call.message.nested_type[1].field) = 2

\* the type python_field_type is claimed to return for a repeated field: a mapping
\* over the entry's key and value types for M.E, a sequence of the base type otherwise
ClaimedRepeatedType ==
    LET entry == call.message.nested_type[1]
    IN  IF call.target = "map"
        THEN "_tp.Dict[" \o python_base_type(call.package, entry.field[1], TRUE, TRUE).val
                \o ", " \o python_base_type(call.package, entry.field[2], TRUE, TRUE).val \o "]"
        ELSE "_tp.List[" \o python_base_type(call.package, call.field, TRUE, TRUE).val \o "]"

\* C5: for every message M, at top level or nested inside another message, a
\* repeated field of M whose type is M's map-entry nested type E resolves to
\* Dict[K', V'] (the base types of E's first and second field), and a repeated field
\* of any other element type resolves to List[base type].  Stated for M in a named
\* package.
C5_MapVersusList ==
    (Typed /\ RepeatedResolvable /\ call.package # "")
        => ret.field_type = Ok(ClaimedRepeatedType)

\* python_default_value's result is in ret
Resolved == pc = "resolved"

\* the enum the field's type_name names, as declared in the compilation unit
DeclaredEnum == IF call.target = "enum" THEN ColorEnum ELSE ShadeEnum

\* the field is a non-repeated, non-oneof field of an enum type that the registry
\* holds, under its fully-qualified name, with at least one value
SingularEnumField ==
    /\ call.target \in {"enum", "enum_far"}
    /\ call.field.label # "LABEL_REPEATED"
    /\ ~call.field.has_oneof_index
    /\ \E i \in DOMAIN call.types :
        /\ call.types[i].name = TargetFqn(call.package, call.enclosing, call.target)
        /\ call.types[i].info.typeClass = "ENUM"
        /\ Len(call.types[i].info.enum.value) >= 1

\* C6: a non-repeated, non-oneof field whose enum type is in the registry with at
\* least one value defaults to that enum's first declared value (Color.RED for
\* Color {RED, BLUE}), whatever the order the files were registered in and whatever
\* the package and nesting of the field's message.
C6_EnumDefaultIsFirstValue ==
    (Resolved /\ SingularEnumField)
        => ret.field_default = Ok(DeclaredEnum.name \o "." \o DeclaredEnum.value[1].name)

\* a Color field of a message of package trac.metadata, the registry built with the
\* field's file last, defaults to Color.RED
C6_Witness ==
    /\ Resolved
    /\ SingularEnumField
    /\ call.target = "enum"
    /\ call.package = "trac.metadata"
    /\ call.registry = "reverse"
    /\ ret.field_default = Ok("Color.RED")

C7_WithoutBareOptional ==
    (/\ Resolved
     /\ call.target # "group"
     /\ call.target \in {"enum", "enum_far"} => call.registry \in {"forward", "reverse"})
        => IF call.field.label = "LABEL_REPEATED"
           THEN ret.field_default \in {Ok("_dc.field(default_factory=list)"),
                                       Ok("_dc.field(default_factory=dict)")}
           ELSE (\/ call.field.has_oneof_index
                 \/ call.field.type = "TYPE_MESSAGE"
                 \/ (call.field.proto3_optional /\ call.field.type # "TYPE_ENUM"))
                    => ret.field_default = Ok("None")

\* the base type of the field under resolution, as python_base_type names it
BaseTypeOfCall == python_base_type(call.package, call.field, TRUE, TRUE).val

\* C11: for a field whose base type resolves (primitive, message or enum), a
\* non-repeated field that is in a oneof or is marked proto3_optional gets
\* Optional[base type], any other non-repeated field gets the bare base type, and a
\* repeated field always gets a List or a Dict and never an Optional, whatever its
\* oneof and proto3_optional flags.
C11_OptionalWrapping ==
    (Typed /\ call.target # "group" /\ Len(call.message.nested_type[1].field) = 2)
        => /\ ret.field_type.err = ""
           /\ IF call.field.label = "LABEL_REPEATED"
              THEN /\ \/ StartsWith(ret.field_type.val, "_tp.List[")
                      \/ StartsWith(ret.field_type.val, "_tp.Dict[")
                   /\ ~Contains(ret.field_type.val, "Optional")
              ELSE IF call.field.proto3_optional \/ call.field.has_oneof_index
              THEN ret.field_type.val = "_tp.Optional[" \o BaseTypeOfCall \o "]"
              ELSE ret.field_type.val = BaseTypeOfCall

\* a repeated string field carrying both flags resolves to a list, and the call is over
C11_Witness ==
    /\ Typed
    /\ call.target = "string"
    /\ call.field.label = "LABEL_REPEATED"
    /\ call.field.proto3_optional
    /\ call.field.has_oneof_index
    /\ ret.field_type = Ok("_tp.List[str]")

\* the type and the default resolved for the field classify it alike
SameClassification ==
    /\ ret.field_type.err = ""
    /\ ret.field_default.err = ""
    /\ StartsWith(ret.field_type.val, "_tp.Dict[")
            <=> ret.field_default.val = "_dc.field(default_factory=dict)"
    /\ StartsWith(ret.field_type.val, "_tp.List[")
            <=> ret.field_default.val = "_dc.field(default_factory=list)"

\* C19: for every message, top-level or nested, in any package, and every repeated
\* field of it, python_field_type returns a Dict type exactly when
\* python_default_value returns the empty-mapping factory, and a List type exactly
\* when the default is the empty-sequence factory.
C19_TypeAndDefaultAgree ==
    (Resolved /\ RepeatedResolvable) => SameClassification

\* the same for a message at the top level of a named package
C19_ForTopLevelMessages ==
    (Resolved /\ RepeatedResolvable /\ call.enclosing = "" /\ call.package # "")
        => SameClassification

\* the default names the first value of the enum through the field's type expression
DefaultNamedByType ==
    /\ ret.field_type.err = ""
    /\ ret.field_default = Ok(ret.field_type.val \o "." \o DeclaredEnum.value[1].name)

\* C21: for every non-repeated, non-oneof field of an enum type, the enum declared in
\* the field's own package or in another one, python_default_value returns
\* <T>.<first value name> with <T> exactly the type expression python_field_type
\* returns for the field.
C21_DefaultUsesTypeExpression ==
    (Resolved /\ SingularEnumField) => DefaultNamedByType

\* the same for an enum declared at the top level of the field's own, named package
\* and a field that is not marked proto3_optional
C21_ForOwnPackageEnums ==
    (/\ Resolved
     /\ SingularEnumField
     /\ call.target = "enum"
     /\ call.package # ""
     /\ ~call.field.proto3_optional)
        => DefaultNamedByType

(***************************************************************************)
(* SpecComment: translate_comment_from_proto and format_doc_comment applied *)
(* to the leading comment of a node emitted at a depth.                     *)
(***************************************************************************)
CommentAlphabet == {"*", "\n", " ", "/", "a"}

\* all strings over the alphabet of length at most n
RECURSIVE StringsUpTo(_)
StringsUpTo(n) ==
    IF n = 0 THEN {""}
    ELSE LET shorter == StringsUpTo(n - 1)
         IN  shorter \cup {t \o c : t \in shorter, c \in CommentAlphabet}

CommentWords == {"Hello", "World", "a"}

\* a block comment opened by the "*" marker, with two lines of text
MarkedComment(lines) == "* " \o lines[1] \o "\n " \o lines[2]

\* the same with the marker on a line of its own, as for a comment opened by "/**" alone
MarkedOwnLineComment(lines) == "*\n " \o lines[1] \o "\n " \o lines[2] \o "\n"

CommentCall(comment, lines, indent, next_indent) ==
    [op |-> "comment", comment |-> comment, lines |-> lines, indent |-> indent,
     next_indent |-> next_indent]

InitComment ==
    /\ pc = "comment"
    /\ \E indent \in 0..MaxDepth, next_indent \in BOOLEAN :
        \/ \E t \in StringsUpTo(MaxCommentLen) :
                call = CommentCall(SomeStr(t), <<>>, indent, next_indent)
        \/ call = CommentCall(NoneStr, <<>>, indent, next_indent)
        \/ \E w1 \in CommentWords, w2 \in CommentWords :
            \/ call = CommentCall(SomeStr(MarkedComment(<<w1, w2>>)), <<w1, w2>>,
                                  indent, next_indent)
            \/ call = CommentCall(SomeStr(MarkedOwnLineComment(<<w1, w2>>)), <<w1, w2>>,
                                  indent, next_indent)
    /\ ret = NoRet
    /\ proto_files = <<>>
    /\ type_map = <<>>
    /\ file_idx = 1
    /\ options = NoOptions
    /\ api_package = ""
    /\ files = <<>>
    /\ output_files = <<>>
    /\ package_imports = ""
    /\ result = <<>>
    /\ error = ""
    /\ visited = <<>>

\* translated_comment = self.translate_comment_from_proto(ctx, comment, next_indent)
TranslateComment ==
    /\ pc = "comment"
    /\ pc' = "translated"
    /\ ret' = [op |-> "comment",
               translated |-> translate_comment_from_proto(call.indent, call.comment,
                                                           call.next_indent)]
    /\ UNCHANGED <<options, api_package, proto_files, files, type_map, file_idx,
                   output_files, package_imports, result, error, visited, call>>

\* format_doc_comment returns the documentation block
FormatDocComment ==
    /\ pc = "translated"
    /\ pc' = "formatted"
    /\ ret' = [op |-> "comment", translated |-> ret.translated,
               doc |-> format_doc_comment(call.indent, call.comment, call.next_indent)]
    /\ UNCHANGED <<options, api_package, proto_files, files, type_map, file_idx,
                   output_files, package_imports, result, error, visited, call>>

NextComment == TranslateComment \/ FormatDocComment

SpecComment == InitComment /\ [][NextComment]_vars

\* the documentation block of two text lines at depth d: opening quotes, the
\* lines and closing quotes, each indented by d indentation units
DocBlock(d, lines) ==
    LET indent == StrRepeat(INDENT_TEMPLATE, d)
    IN  indent \o "\"\"\"" \o "\n" \o indent \o lines[1] \o "\n" \o indent \o lines[2] \o "\n"
            \o indent \o "\"\"\"" \o "\n\n"

\* C8: the leading comment "* Hello\n World" (a comment that begins with the "*"
\* marker) of a field emitted at depth d becomes a multi-line documentation block
\* whose every line is indented by exactly d units and whose text lines are Hello
\* and World, the marker removed.
C8_MarkerRemovedAndIndented ==
    (/\ pc = "formatted"
     /\ ~call.next_indent
     /\ Len(call.lines) = 2
     /\ call.comment = SomeStr(MarkedComment(call.lines)))
        => ret.doc = DocBlock(call.indent, call.lines)

\* the same for the marker on a line of its own
C8_MarkerOnOwnLine ==
    (/\ pc = "formatted"
     /\ ~call.next_indent
     /\ Len(call.lines) = 2
     /\ call.comment = SomeStr(MarkedOwnLineComment(call.lines)))
        => ret.doc = DocBlock(call.indent, call.lines)

\* the text the translation is claimed to be for a comment without an opening marker:
\* the comment less its final line break, line by line, each line less one leading
\* space if it has one and prefixed with the indentation of the emission depth
PreservedText(text, indent) ==
    LET body == IF EndsWith(text, "\n") THEN StrTo(text, Len(text) - 1) ELSE text
        lines == StrSplit(body, "\n")
    IN  StrJoin("\n", [k \in DOMAIN lines |->
            indent \o (IF StartsWith(lines[k], " ") THEN StrFrom(lines[k], 1) ELSE lines[k])])

\* the translation is over and gave a text for a comment that holds no "*" marker
TranslatedUnmarked ==
    /\ pc \in {"translated", "formatted"}
    /\ ~call.comment.is_none
    /\ ~Contains(call.comment.text, "*")
    /\ ret.translated # ""

\* C18: for a comment without an @see annotation (and without an opening marker), the
\* translated text is the comment's lines in their order, each with at most one
\* leading space removed and prefixed with the indentation of the emission depth; but
\* for the final line break no character of the text, a "/" included, is removed or
\* altered.  Trailing blank space is left out of the comparison.
C18_TextPreserved ==
    TranslatedUnmarked =>
        StrRStrip(ret.translated)
            = StrRStrip(PreservedText(call.comment.text,
                    StrRepeat(INDENT_TEMPLATE,
                        IF call.next_indent THEN call.indent + 1 ELSE call.indent)))

\* the same for comments that hold no "/"
C18_WithoutSlash ==
    (TranslatedUnmarked /\ ~Contains(call.comment.text, "/")) =>
        StrRStrip(ret.translated)
            = StrRStrip(PreservedText(call.comment.text,
                    StrRepeat(INDENT_TEMPLATE,
                        IF call.next_indent THEN call.indent + 1 ELSE call.indent)))

(***************************************************************************)
(* SpecImports: generate_module_imports applied to the dependency list of  *)
(* one file of package P, then python_field_type applied to a field of     *)
(* that file whose type another file declares.                             *)
(***************************************************************************)
MaxDeps == 3

\* the file's package, its dependency list, and the type its field names: the
\* declaring file, that file's package and the type's path within the package
InitImports ==
    /\ pc = "imports"
    /\ \E p \in {"trac.metadata", "trac.api", "a.b"},
          deps \in SeqsUpTo({"trac/metadata/one.proto", "trac/metadata/two.proto",
                             "trac/api/svc.proto", "trac/api/meta/far.proto",
                             "google/protobuf/any.proto"}, MaxDeps),
          t \in {[file |-> "trac/metadata/one.proto", package |-> "trac.metadata",
                  path |-> "Tag"],
                 [file |-> "trac/metadata/two.proto", package |-> "trac.metadata",
                  path |-> "Tag.Part"],
                 [file |-> "trac/api/svc.proto", package |-> "trac.api", path |-> "Request"],
                 [file |-> "trac/api/meta/far.proto", package |-> "trac.api.meta",
                  path |-> "Shade"]},
          oneof \in BOOLEAN :
        call = [op |-> "imports", package |-> p, type |-> t,
                descriptor |-> FileDescriptor("this.proto", p, deps,
                    <<Message("M", <<Field("f", "LABEL_OPTIONAL", "TYPE_MESSAGE",
                        "." \o t.package \o "." \o t.path, FALSE, oneof)>>,
                        <<>>, <<>>, FALSE)>>, <<>>, <<>>, <<>>)]
    /\ \/ options = NoOptions
       \/ options = [target_package |-> "tracdap.rt"]
    /\ ret = NoRet
    /\ proto_files = <<>>
    /\ type_map = <<>>
    /\ file_idx = 1
    /\ api_package = ""
    /\ files = <<>>
    /\ output_files = <<>>
    /\ package_imports = ""
    /\ result = <<>>
    /\ error = ""
    /\ visited = <<>>

\* generate_file: imports.extend(self.generate_module_imports(descriptor, package))
GenerateModuleImports ==
    /\ pc = "imports"
    /\ pc' = "imported"
    /\ ret' = [op |-> "imports",
               import_stmts |-> generate_module_imports(call.descriptor, call.package, options)]
    /\ UNCHANGED <<options, api_package, proto_files, files, type_map, file_idx,
                   output_files, package_imports, result, error, visited, call>>

\* generate_data_member, reached from generate_file after the imports:
\* field_type = self.python_field_type(package, field, message)
ResolveImportedType ==
    /\ pc = "imported"
    /\ pc' = "import_typed"
    /\ ret' = [op |-> "imports", import_stmts |-> ret.import_stmts,
               field_type |-> python_field_type(call.package,
                    call.descriptor.message_type[1].field[1],
                    call.descriptor.message_type[1])]
    /\ UNCHANGED <<options, api_package, proto_files, files, type_map, file_idx,
                   output_files, package_imports, result, error, visited, call>>

NextImports == GenerateModuleImports \/ ResolveImportedType

SpecImports == InitImports /\ [][NextImports]_vars

\* generate_module_imports has returned
Imported == pc \in {"imported", "import_typed"}

\* the package and the module a dependency path names: its directory with dots, and
\* its file name without the extension
DepPackage(dep) == StrReplace(StrTo(dep, StrRFind(dep, "/")), "/", ".")

DepModule(dep) == StrTo(StrFrom(dep, StrRFind(dep, "/") + 1), Len(dep) - StrRFind(dep, "/") - 1 - Len(".proto"))

\* the dependencies of the file that lie below the reserved root
TracDeps ==
    {call.descriptor.dependency[k] : k \in {i \in DOMAIN call.descriptor.dependency :
        StartsWith(call.descriptor.dependency[i], "trac/")}}

\* the root the generated imports name: the target_package option, "trac" by default
TargetRoot == IF "target_package" \in DOMAIN options THEN options.target_package ELSE "trac"

\* the statements the claim assigns to a sibling module and to a foreign package
SiblingImport(module) == "from ." \o module \o " import *  # noqa\n"

ForeignImport(package) ==
    "import " \o TargetRoot \o "." \o StrFrom(package, Len("trac."))
        \o " as " \o StrFrom(package, StrRFind(package, ".") + 1) \o "\n"

\* the number of times stmt occurs in the returned statements
Occurrences(stmt) ==
    Cardinality({i \in DOMAIN ret.import_stmts : ret.import_stmts[i] = stmt})

\* C12: for a file of package P and every dependency list, repeats included, each
\* dependency on a file of P yields the wildcard import of that sibling module and
\* nothing else, each dependency on a file of another package (below the reserved
\* root) yields the aliased import of that package, and statements are deduplicated by
\* key: one statement per sibling module and per foreign package referenced, however
\* often it is referenced.
C12_ImportsDeduplicated ==
    Imported =>
        /\ \A dep \in TracDeps :
            IF DepPackage(dep) = call.package
            THEN Occurrences(SiblingImport(DepModule(dep))) = 1
            ELSE Occurrences(ForeignImport(DepPackage(dep))) = 1
        /\ Len(ret.import_stmts) =
            Cardinality({IF DepPackage(dep) = call.package THEN DepModule(dep)
                         ELSE DepPackage(dep) : dep \in TracDeps})

\* no dependency on a file of the file's own package occurs twice in the list
NoSiblingRepeated ==
    \A i, j \in DOMAIN call.descriptor.dependency :
        (/\ i # j
         /\ call.descriptor.dependency[i] = call.descriptor.dependency[j])
            => DepPackage(call.descriptor.dependency[i]) # call.package

\* the same, for dependency lists that name no sibling file more than once
C12_WithoutRepeatedSibling == NoSiblingRepeated => C12_ImportsDeduplicated

\* the field's type is declared in another package, in a file the dependency list names
ForeignTypeImported ==
    /\ pc = "import_typed"
    /\ call.type.package # call.package
    /\ \E k \in DOMAIN call.descriptor.dependency :
            call.descriptor.dependency[k] = call.type.file

\* the opening of the statement that imports package q: the target root and q's path
\* below the reserved root, up to the alias
ImportOpening(q) == "import " \o TargetRoot \o "." \o StrFrom(q, Len("trac.")) \o " as "

\* the type expression of the field for a type named <alias>.<path within its package>
AliasedType(alias) ==
    IF call.descriptor.message_type[1].field[1].has_oneof_index
    THEN Ok("_tp.Optional[" \o alias \o "." \o call.type.path \o "]")
    ELSE Ok(alias \o "." \o call.type.path)

\* the name statement stmt binds, given that it opens with ImportOpening(q)
BoundAlias(stmt, q) == StrTo(StrFrom(stmt, Len(ImportOpening(q))), Len(stmt) - Len(ImportOpening(q)) - 1)

\* C20: for a field of a file of package P whose type is declared in another package
\* Q below the reserved root trac, of any depth, with Q's file among the file's
\* dependencies: generate_module_imports emits a statement importing target_package
\* (trac by default) + "." + Q's path below the root under an alias, and the type
\* expression python_field_type returns is that alias + "." + the type's path within Q.
C20_AliasMatchesTypeExpression ==
    ForeignTypeImported =>
        \E k \in DOMAIN ret.import_stmts :
            /\ StartsWith(ret.import_stmts[k], ImportOpening(call.type.package))
            /\ ret.field_type = AliasedType(BoundAlias(ret.import_stmts[k], call.type.package))

\* the same for packages Q directly below the root
C20_ForPackagesBelowRoot ==
    (ForeignTypeImported /\ ~Contains(StrFrom(call.type.package, Len("trac.")), "."))
        => \E k \in DOMAIN ret.import_stmts :
            /\ StartsWith(ret.import_stmts[k], ImportOpening(call.type.package))
            /\ ret.field_type = AliasedType(BoundAlias(ret.import_stmts[k], call.type.package))

(***************************************************************************)
(* SpecName: python_type_name applied to the request type of a service     *)
(* method of package P.                                                    *)
(***************************************************************************)
InitName ==
    /\ pc = "name"
    /\ \E p \in {"", "a", "trac.meta", "trac.metadata", "trac.api"},
          q \in {"", "a", "ab", "trac.meta", "trac.metadata", "trac.api.meta"},
          path \in {"Foo", "Outer.In"}, dot \in BOOLEAN, alias \in BOOLEAN :
        call = [op |-> "name", package |-> p, type |-> [package |-> q, path |-> path],
                alias |-> alias,
                descriptor |-> Method("call",
                    (IF dot THEN "." ELSE "") \o Fqn(q, path), ".a.Foo")]
    /\ ret = NoRet
    /\ proto_files = <<>>
    /\ type_map = <<>>
    /\ file_idx = 1
    /\ options = NoOptions
    /\ api_package = ""
    /\ files = <<>>
    /\ output_files = <<>>
    /\ package_imports = ""
    /\ result = <<>>
    /\ error = ""
    /\ visited = <<>>

\* request_type = self.python_type_name(package, descriptor.input_type, make_relative=True)
ResolveTypeName ==
    /\ pc = "name"
    /\ pc' = "named"
    /\ ret' = [op |-> "name",
               type_name |-> python_type_name(call.package, call.descriptor.input_type,
                                              TRUE, call.alias)]
    /\ UNCHANGED <<options, api_package, proto_files, files, type_map, file_idx,
                   output_files, package_imports, result, error, visited, call>>

SpecName == InitName /\ [][ResolveTypeName]_vars

\* package q is package p or lies below it, counted in whole name components
WithinPackage(q, p) == q = p \/ p = "" \/ StartsWith(q, p \o ".")

\* C15: python_type_name with make_relative set (and no alias), for every current
\* package P and type T: when T is declared in P the result is T's path within P (T
\* without the prefix "P."); when T is declared in a package that is neither P nor
\* below P the result is T's full name, no character lost, also when that package's
\* name merely begins with the characters of P and when P is the empty package.
C15_RelativeTypeName ==
    (pc = "named" /\ ~call.alias) =>
        IF call.type.package = call.package
        THEN ret.type_name = call.type.path
        ELSE ~WithinPackage(call.type.package, call.package)
                => ret.type_name = Fqn(call.type.package, call.type.path)

\* the same for a named package P and types whose package does not begin with the
\* characters of P unless it is P
C15_ForUnrelatedNames ==
    (/\ pc = "named"
     /\ ~call.alias
     /\ call.package # ""
     /\ StartsWith(call.type.package, call.package) => call.type.package = call.package)
        => IF call.type.package = call.package
           THEN ret.type_name = call.type.path
           ELSE ret.type_name = Fqn(call.type.package, call.type.path)

(***************************************************************************)
(* Spec: a generation run.  build_type_map over the compilation unit, then *)
(* generate_package over the files of one package: one step per file of    *)
(* its for loop, then the manifest, the package filter and the return.     *)
(***************************************************************************)
RunPackages == {"a", "a.b", "a.bc", "x.y"}

RunFilters == {"a", "a.b", "a.b.c", "x.y"}

\* self._options: flat_pack absent, true or false; packages absent or a filter
RunOptions ==
    {<<>>}
    \cup {[flat_pack |-> b] : b \in BOOLEAN}
    \cup {[packages |-> f] : f \in RunFilters}
    \cup {[flat_pack |-> b, packages |-> f] : b \in BOOLEAN, f \in RunFilters}

StringField(name) == Field(name, "LABEL_OPTIONAL", "TYPE_STRING", "", FALSE, FALSE)

TagsEntry(enums) ==
    Message("TagsEntry",
        <<StringField("key"), Field("value", "LABEL_OPTIONAL", "TYPE_INT32", "", FALSE, FALSE)>>,
        <<>>, enums, TRUE)

\* one.proto: enum Color; message Msg with a string, an enum and a map field, a
\* nested message N and documentation comments
RunFileOne(p) ==
    FileDescriptor(PackagePath(p) \o "/one.proto", p, <<>>,
        <<Message("Msg",
            <<StringField("name"),
              Field("color", "LABEL_OPTIONAL", "TYPE_ENUM", "." \o p \o ".Color", FALSE, FALSE),
              Field("tags", "LABEL_REPEATED", "TYPE_MESSAGE", "." \o p \o ".Msg.TagsEntry",
                    FALSE, FALSE)>>,
            <<PlainNested, TagsEntry(<<>>)>>, <<>>, FALSE)>>,
        <<ColorEnum>>, <<>>,
        <<Location(<<5, 0>>, " Colors\n"),
          Location(<<5, 0, 2, 1>>, " Blue\n"),
          Location(<<4, 0>>, "*\n A message\n with text\n"),
          Location(<<4, 0, 2, 0>>, " The name\n"),
          Location(<<4, 0, 3, 0>>, " Nested\n")>>)

\* two.proto: a message without fields, a message whose map-entry type declares an
\* enum, and a service
RunFileTwo(p) ==
    FileDescriptor(PackagePath(p) \o "/two.proto", p, <<PackagePath(p) \o "/one.proto">>,
        <<Message("Empty", <<>>, <<>>, <<>>, FALSE),
          Message("Index",
            <<Field("tags", "LABEL_REPEATED", "TYPE_MESSAGE", "." \o p \o ".Index.TagsEntry",
                    FALSE, FALSE)>>,
            <<TagsEntry(<<EnumType("Hidden", <<EnumValue("H", 0)>>)>>)>>, <<>>, FALSE)>>,
        <<>>,
        <<Service("Svc", <<Method("Echo", "." \o p \o ".Empty", "." \o p \o ".Empty")>>)>>,
        <<Location(<<6, 0>>, " A service\n")>>)

BadEnum == EnumType("Bad", <<EnumValue("X", 0)>>)

\* nest.proto: message Holder declares an enum, directly or two levels down, between
\* two plain messages
RunFileNested(p, deep) ==
    FileDescriptor(PackagePath(p) \o "/nest.proto", p, <<>>,
        <<Message("Before", <<StringField("s")>>, <<>>, <<>>, FALSE),
          IF deep
          THEN Message("Holder", <<>>,
                    <<Message("Inner", <<>>, <<>>, <<BadEnum>>, FALSE)>>, <<>>, FALSE)
          ELSE Message("Holder", <<>>, <<>>, <<BadEnum>>, FALSE),
          Message("After", <<>>, <<>>, <<>>, FALSE)>>,
        <<>>, <<>>, <<>>)

\* bad.proto: an enum field whose enum no file of the unit declares
RunFileBad(p) ==
    FileDescriptor(PackagePath(p) \o "/bad.proto", p, <<>>,
        <<Message("Broken",
            <<Field("kind", "LABEL_OPTIONAL", "TYPE_ENUM", ".zz.Missing", FALSE, FALSE)>>,
            <<>>, <<>>, FALSE)>>,
        <<>>, <<>>, <<>>)

RunCatalog(p) ==
    {RunFileOne(p), RunFileTwo(p), RunFileNested(p, FALSE), RunFileNested(p, TRUE),
     RunFileBad(p)}

\* the package a.b with every list of files, or every package with at most one file
RunInputs(p, fs) ==
    \/ p = "a.b" /\ fs \in SeqsUpTo(RunCatalog(p), MaxFiles)
    \/ p \in RunPackages /\ fs \in SeqsUpTo({RunFileOne(p), RunFileTwo(p)}, 1)

Init ==
    /\ pc = "start"
    /\ options \in RunOptions
    /\ api_package \in RunPackages
    /\ RunInputs(api_package, files)
    /\ proto_files = files
    /\ type_map = <<>>
    /\ file_idx = 1
    /\ output_files = <<>>
    /\ package_imports = ""
    /\ result = <<>>
    /\ error = ""
    /\ visited = <<>>
    /\ call = NoCall
    /\ ret = NoRet

\* type_map = generator.build_type_map(proto_files)
BuildTypeMap ==
    /\ pc = "start"
    /\ type_map' = build_type_map(proto_files)
    /\ pc' = "generate"
    /\ UNCHANGED <<options, api_package, proto_files, files, file_idx, output_files,
                   package_imports, result, error, visited, call, ret>>

\* the body of generate_package's for loop after module_code = self.generate_file(...)
LoopBody(file_descriptor, module_code) ==
    /\ visited' = visited \o module_code.visited
    /\ IF module_code.err # ""
       THEN /\ pc' = "failed"
            /\ error' = module_code.err
            /\ UNCHANGED <<file_idx, output_files, package_imports>>
       ELSE /\ output_files' = Append(output_files,
                    ModuleResponse(api_package, options, file_descriptor, module_code.val,
                                   output_files))
            /\ package_imports' =
                    IF FlatPack(options) THEN package_imports
                    ELSE package_imports \o generate_package_imports(file_descriptor)
            /\ file_idx' = file_idx + 1
            /\ UNCHANGED <<pc, error>>

\* one pass of generate_package's for loop; an exception of generate_file ends the run
GenerateFile ==
    /\ pc = "generate"
    /\ file_idx <= Len(files)
    /\ LoopBody(files[file_idx],
                generate_file(files[file_idx].location, 0, files[file_idx], api_package,
                              type_map, ~FlatPack(options), options))
    /\ UNCHANGED <<options, api_package, proto_files, files, type_map, result, call, ret>>

\* the loop is over: the manifest is appended, the package filter applied, the list returned
ReturnOutput ==
    /\ pc = "generate"
    /\ file_idx > Len(files)
    /\ output_files' = WithManifest(api_package, options, files, output_files, package_imports)
    /\ result' = PackageFilter(api_package, options, output_files')
    /\ pc' = "done"
    /\ UNCHANGED <<options, api_package, proto_files, files, type_map, file_idx,
                   package_imports, error, visited, call, ret>>

Next == BuildTypeMap \/ GenerateFile \/ ReturnOutput

Spec == Init /\ [][Next]_vars

(***************************************************************************)
(* SpecClass: generate_data_class applied to one top-level message Box of  *)
(* package a, with nested types and fields in every order.                 *)
(***************************************************************************)
MaxNested == 3

MaxFields == 2

\* the nested types Box can declare: a message with a field, one without fields, and
\* two map-entry types, one of them declaring an enum
NestedPool ==
    {Message("P", <<StringField("x")>>, <<>>, <<>>, FALSE),
     Message("Q", <<>>, <<>>, <<>>, FALSE),
     TagsEntry(<<>>),
     Message("AttrsEntry", <<StringField("key"), StringField("value")>>, <<>>,
             <<EnumType("Hidden", <<EnumValue("H", 0)>>)>>, TRUE)}

\* the sequences over S of length at most n that name no element twice
DistinctSeqs(S, n) ==
    {q \in SeqsUpTo(S, n) : \A i, j \in DOMAIN q : i # j => q[i] # q[j]}

InitClass ==
    /\ pc = "class"
    /\ \E nested \in DistinctSeqs(NestedPool, MaxNested),
          names \in DistinctSeqs({"a", "b", "c", "d"}, MaxFields) :
        call = [op |-> "class", package |-> "a",
                ctx |-> LocationContext(<<>>, DescFileMessage, 0, 0),
                descriptor |-> Message("Box", [k \in DOMAIN names |-> StringField(names[k])],
                                       nested, <<>>, FALSE)]
    /\ ret = NoRet
    /\ proto_files = <<>>
    /\ type_map = <<>>
    /\ file_idx = 1
    /\ options = NoOptions
    /\ api_package = ""
    /\ files = <<>>
    /\ output_files = <<>>
    /\ package_imports = ""
    /\ result = <<>>
    /\ error = ""
    /\ visited = <<>>

\* generate_file: self.generate_data_class(package, package, ctx, descriptor, types)
GenerateDataClass ==
    /\ pc = "class"
    /\ pc' = "class_done"
    /\ ret' = [op |-> "class",
               code |-> generate_data_class(call.package, call.package, call.ctx,
                                            call.descriptor, <<>>)]
    /\ UNCHANGED <<options, api_package, proto_files, files, type_map, file_idx,
                   output_files, package_imports, result, error, visited, call>>

SpecClass == InitClass /\ [][GenerateDataClass]_vars

\* the number of times pattern occurs in text
Times(text, pattern) == Len(StrSplit(text, pattern)) - 1

\* the line that opens the class of Box's j-th nested type, and the start of the
\* member of Box's k-th field
NestedClassLine(j) == "    class " \o call.descriptor.nested_type[j].name \o ":\n"

MemberStart(k) == "\n    " \o call.descriptor.field[k].name \o ": "

\* C17: in the text generate_data_class returns for a message, a nested type flagged
\* map-entry has no class declaration; every other nested message has exactly one,
\* in declared order, before the data members; there is one data member per declared
\* field, in declared order; and a message without fields has the placeholder pass
\* as its member section.
C17_BodyComposition ==
    pc = "class_done" =>
        /\ ret.code.err = ""
        /\ \A j \in DOMAIN call.descriptor.nested_type :
            IF call.descriptor.nested_type[j].map_entry
            THEN ~Contains(ret.code.val, "class " \o call.descriptor.nested_type[j].name)
            ELSE /\ Times(ret.code.val, NestedClassLine(j)) = 1
                 /\ \A i \in 1..(j - 1) :
                        ~call.descriptor.nested_type[i].map_entry
                            => StrFind(ret.code.val, NestedClassLine(i))
                                    < StrFind(ret.code.val, NestedClassLine(j))
                 /\ \A k \in DOMAIN call.descriptor.field :
                        StrFind(ret.code.val, NestedClassLine(j))
                            < StrFind(ret.code.val, MemberStart(k))
                 /\ Len(call.descriptor.field) = 0
                        => StrFind(ret.code.val, NestedClassLine(j))
                                < StrRFind(ret.code.val, "\n    pass\n")
        /\ \A k \in DOMAIN call.descriptor.field :
            /\ Times(ret.code.val, MemberStart(k)) = 1
            /\ \A i \in 1..(k - 1) :
                    StrFind(ret.code.val, MemberStart(i)) < StrFind(ret.code.val, MemberStart(k))
        /\ Times(ret.code.val, " = None\n\n") = Len(call.descriptor.field)
                + Cardinality({j \in DOMAIN call.descriptor.nested_type :
                                call.descriptor.nested_type[j].name = "P"})
        /\ IF Len(call.descriptor.field) = 0
           THEN EndsWith(ret.code.val, "\n    pass\n\n")
           ELSE ~Contains(ret.code.val, "\n    pass\n")

\* Box declares a map-entry type, then Q, then P and no field: the text holds the
\* classes Q and P in that order and ends with pass
C17_Witness ==
    /\ pc = "class_done"
    /\ Len(call.descriptor.nested_type) = 3
    /\ call.descriptor.nested_type[1].map_entry
    /\ call.descriptor.nested_type[2].name = "Q"
    /\ call.descriptor.nested_type[3].name = "P"
    /\ Len(call.descriptor.field) = 0
    /\ ret.code.val = "@_dc.dataclass\nclass Box:\n\n"
            \o "    @_dc.dataclass\n    class Q:\n\n        pass\n\n"
            \o "    @_dc.dataclass\n    class P:\n\n        x: str = None\n\n"
            \o "    pass\n\n"

(***************************************************************************)
(* Properties of a generation run.                                         *)
(***************************************************************************)
Done == pc = "done"

HasFilter == "packages" \in DOMAIN options

\* the components of a dotted package name
Components(name) == StrSplit(name, ".")

\* package p lies strictly below package f, counted in whole name components
Descendant(p, f) ==
    /\ Len(Components(f)) < Len(Components(p))
    /\ SubSeq(Components(p), 1, Len(Components(f))) = Components(f)

\* the record that stands for a package the filter leaves out
Placeholder(p) == ResponseFile(PackagePath(p) \o "/__init__.py", "")

\* C1: for every package P and filter F, a run that completes returns the normal
\* output (the list the loop and the manifest step built) when F is unset, P = F or
\* P lies below F; exactly the empty record <P path>/__init__.py when F lies below P;
\* and the empty list in every other case, names that only share a string prefix
\* included.
C1_PackageFilter ==
    Done =>
        IF ~HasFilter THEN result = output_files
        ELSE IF api_package = options.packages \/ Descendant(api_package, options.packages)
        THEN result = output_files
        ELSE IF Descendant(options.packages, api_package)
        THEN result = <<Placeholder(api_package)>>
        ELSE result = <<>>

C1_Witness ==
    /\ Done
    /\ HasFilter
    /\ options.packages = "a.b"
    /\ api_package = "a.bc"
    /\ Len(files) = 1
    /\ output_files # <<>>
    /\ result = <<>>

AncestorCase == Done /\ HasFilter /\ api_package = "a.b" /\ options.packages = "a.b.c"

\* C2 as stated: with filter "a.b.c" and package "a.b" the run returns the full
\* normal output of a.b, its modules and its manifest.
C2_AncestorGetsFullOutput == AncestorCase => result = output_files

\* C2: with filter "a.b.c" and package "a.b" the run returns exactly one record,
\* a/b/__init__.py with empty content, whatever the files and the flat_pack option.
C2_AncestorGetsPlaceholder ==
    AncestorCase => result = <<[name |-> "a/b/__init__.py", content |-> ""]>>

C2_Witness ==
    /\ AncestorCase
    /\ Len(files) = 2
    /\ ~FlatPack(options)
    /\ Len(output_files) = 3
    /\ Len(result) = 1

\* the body generate_file returns for each input file in flat-pack mode
FlatBodies ==
    [i \in DOMAIN files |->
        generate_file(files[i].location, 0, files[i], api_package, type_map, FALSE, options).val]

FlatMode == "flat_pack" \in DOMAIN options /\ options.flat_pack

PlainMode == "flat_pack" \notin DOMAIN options

Unfiltered == Done /\ ~HasFilter /\ Len(files) >= 1

\* N module records named <p path>/<input stem>.py, then the manifest record
ModulesAndManifest ==
    /\ Len(result) = Len(files) + 1
    /\ \A i \in DOMAIN files :
        result[i].name = PackagePath(api_package) \o "/" \o PathStem(files[i].name) \o ".py"
    /\ result[Len(files) + 1].name = PackagePath(api_package) \o "/__init__.py"

NoManifest == \A i \in DOMAIN result : result[i].name # PackagePath(api_package) \o "/__init__.py"

DeclaresEnum(scoped_name) ==
    /\ HasKey(type_map, scoped_name)
    /\ DictGet(type_map, scoped_name).typeClass = "MESSAGE"
    /\ Len(DictGet(type_map, scoped_name).message.enum_type) > 0

ReachedNestedEnum == \E i \in DOMAIN visited : DeclaresEnum(visited[i])

\* C4: once generate_data_class has been invoked on a message that declares an enum,
\* at top level or nested at any depth, the run has failed with ECodeGeneration and
\* returned no record, whatever files came before and whatever the options are.
C4_NestedEnumAborts ==
    ReachedNestedEnum => pc = "failed" /\ error = "ECodeGeneration" /\ result = <<>>

C4_Witness ==
    /\ pc = "failed"
    /\ error = "ECodeGeneration"
    /\ file_idx = 3
    /\ Len(visited) > 3
    /\ visited[Len(visited)] = "a.b.Holder.Inner"
    /\ FlatPack(options)
    /\ HasFilter

\* C10 as stated: every run that does not complete fails with ECodeGeneration.
C10_SingleErrorKind == pc = "failed" => error = "ECodeGeneration"

\* the re-export lines the manifest is claimed to hold for one file: one per top-level
\* enum, then one per top-level message, in declared order
ReExports(descriptor) ==
    [k \in DOMAIN descriptor.enum_type |->
        "from ." \o PathStem(descriptor.name) \o " import " \o descriptor.enum_type[k].name]
    \o [k \in DOMAIN descriptor.message_type |->
        "from ." \o PathStem(descriptor.name) \o " import " \o descriptor.message_type[k].name]

RECURSIVE ReExportsOfAll(_)
ReExportsOfAll(fs) ==
    IF Len(fs) = 0 THEN <<>> ELSE ReExports(Head(fs)) \o ReExportsOfAll(Tail(fs))

NonBlank(line) == line # ""

\* the last record is <package path>/__init__.py and its lines, blank ones aside, are
\* the header and the re-exports of the input files
ManifestLast ==
    /\ Len(result) >= 1
    /\ result[Len(result)].name = PackagePath(api_package) \o "/__init__.py"
    /\ SelectSeq(StrSplit(result[Len(result)].content, "\n"), NonBlank)
            = <<"# Code generated by TRAC">> \o ReExportsOfAll(files)
    /\ Len(files) = 0 => result[Len(result)].content = "# Code generated by TRAC\n"

\* C13: in a run without a package filter that is not in flat-pack mode (flat_pack
\* absent or false), or whose input list is empty, the last record returned is the
\* manifest <package path>/__init__.py, holding the header and then exactly one
\* re-export line per top-level enum and per top-level message of every input file,
\* in input order, a file's enums before its messages; nothing for nested types and
\* services; the header alone for an empty input list.
C13_ManifestContent ==
    (Done /\ ~HasFilter /\ (~FlatMode \/ Len(files) = 0)) => ManifestLast

\* the same for runs whose options do not hold flat_pack at all
C13_WithFlatPackAbsent ==
    (Done /\ ~HasFilter /\ (PlainMode \/ Len(files) = 0)) => ManifestLast

\* a run over two files without flat_pack ended with the manifest of four re-exports
C13_TwoFilesManifest ==
    /\ Done
    /\ PlainMode
    /\ ~HasFilter
    /\ Len(files) = 2
    /\ files[1] # files[2]
    /\ ManifestLast
    /\ Len(ReExportsOfAll(files)) >= 4

\* C14: flat_pack is a boolean.  A run with files and no filter merges the package
\* into one output file (first record <package path>.py, no manifest) exactly when
\* flat_pack is true; with the option absent or false it returns one module per
\* input file, each opening with the header and the standard imports, and then the
\* manifest.
C14_FlatPackIsBoolean ==
    Unfiltered =>
        IF FlatMode
        THEN result[1].name = PackagePath(api_package) \o ".py" /\ NoManifest
        ELSE /\ ModulesAndManifest
             /\ \A i \in DOMAIN files :
                    StartsWith(result[i].content, FILE_HEADER \o STD_IMPORTS)

\* the same with the mode decided by the presence of the option, whatever its value
C14_FlatPackByPresence ==
    Unfiltered =>
        IF FlatPack(options)
        THEN result[1].name = PackagePath(api_package) \o ".py" /\ NoManifest
        ELSE /\ ModulesAndManifest
             /\ \A i \in DOMAIN files :
                    StartsWith(result[i].content, FILE_HEADER \o STD_IMPORTS)

\* the leading comment of the source-location entry of the file whose path is exactly
\* `path`, "" when the file has no such entry
CommentAt(descriptor, path) ==
    IF \E l \in DOMAIN descriptor.location : descriptor.location[l].path = path
    THEN descriptor.location[CHOOSE l \in DOMAIN descriptor.location :
            descriptor.location[l].path = path].leading_comments
    ELSE ""

\* a completed run that wrote one module per input file: result[i] is files[i]'s module
ModulesWritten == Done /\ PlainMode /\ ~HasFilter

\* the module of files[i] documents its top-level message m from the entry at
\* [message_type = 4, m]
TopLevelDocumented(i, m) ==
    StrStrip(CommentAt(files[i], <<4, m - 1>>)) # ""
        => Contains(result[i].content,
                "class " \o files[i].message_type[m].name \o ":\n\n"
                    \o format_doc_comment(0, SomeStr(CommentAt(files[i], <<4, m - 1>>)), TRUE))

\* ... and the k-th field of that message from the entry at [4, m, field = 2, k]
FieldDocumented(i, m, k) ==
    StrStrip(CommentAt(files[i], <<4, m - 1, 2, k - 1>>)) # ""
        => Contains(result[i].content,
                format_doc_comment(1, SomeStr(CommentAt(files[i], <<4, m - 1, 2, k - 1>>)),
                                   FALSE))

\* ... and the j-th nested type of that message, when it is emitted, from the entry at
\* [4, m, nested_type = 3, j]
NestedDocumented(i, m, j) ==
    (/\ ~files[i].message_type[m].nested_type[j].map_entry
     /\ StrStrip(CommentAt(files[i], <<4, m - 1, 3, j - 1>>)) # "")
        => Contains(result[i].content,
                "    class " \o files[i].message_type[m].nested_type[j].name \o ":\n\n"
                    \o format_doc_comment(1,
                            SomeStr(CommentAt(files[i], <<4, m - 1, 3, j - 1>>)), TRUE))

\* C16: every emitted message, top-level or nested, is documented from the leading
\* comment of the source-location entry at its own declaration path ([4, i] for
\* top-level message i; p + [3, j] for nested type j of the message at p, map-entry
\* types counted), and its k-th field from the entry at that path + [2, k]; a node
\* goes without documentation only when it has no entry or an empty comment.
C16_DocumentationFollowsPath ==
    ModulesWritten =>
        \A i \in DOMAIN files : \A m \in DOMAIN files[i].message_type :
            /\ TopLevelDocumented(i, m)
            /\ \A k \in DOMAIN files[i].message_type[m].field : FieldDocumented(i, m, k)
            /\ \A j \in DOMAIN files[i].message_type[m].nested_type :
                    NestedDocumented(i, m, j)

\* the same for top-level messages and their fields alone
C16_TopLevelAndFields ==
    ModulesWritten =>
        \A i \in DOMAIN files : \A m \in DOMAIN files[i].message_type :
            /\ TopLevelDocumented(i, m)
            /\ \A k \in DOMAIN files[i].message_type[m].field : FieldDocumented(i, m, k)

====
